---- MODULE Spec2Model ----
(***************************************************************************)
(* A model of ldbc_stat_gen (src/src/main.rs): the import of a directory   *)
(* of '|'-delimited vertex and edge files into a vertex cardinality table  *)
(* and a three-level edge cardinality table.                               *)
(*                                                                         *)
(* Text.  A Rust string is modelled as a sequence of atoms.  An atom is a  *)
(* chunk of characters that holds no separator of the context the string   *)
(* is used in ("_" and "." in file names, ":" in header columns) and that  *)
(* no other atom of the model is a proper prefix of; a separator is an     *)
(* atom of its own, and a decimal digit, "+" and "-" are atoms of their    *)
(* own inside an identifier field.  The empty string is << >>.             *)
(***************************************************************************)
EXTENDS Integers, Sequences, FiniteSets, TLC

\* Option<T>: None is the empty tuple, Some(x) the tuple of x alone.
None == << >>
Some(x) == <<x>>
Unwrap(o) == o[1]

\* The outcome of a step that panics.
Panic == [kind |-> "Panic"]

\* A one-atom string.
S(a) == <<a>>

\* The wildcard key: "".to_owned().
Wild == << >>

(***************************************************************************)
(* Strings                                                                 *)
(***************************************************************************)

\* str::split(sep): the pieces between the separators; always at least one.
\* SplitFrom reads s from position i on, cur being the piece read so far.
RECURSIVE SplitFrom(_, _, _, _)
SplitFrom(s, sep, i, cur) ==
    IF i > Len(s) THEN <<cur>>
    ELSE IF s[i] = sep THEN <<cur>> \o SplitFrom(s, sep, i + 1, << >>)
    ELSE SplitFrom(s, sep, i + 1, Append(cur, s[i]))

Split(s, sep) == SplitFrom(s, sep, 1, << >>)

\* The position of the last "." of a file name, 0 when there is none.
LastDot(name) ==
    LET dots == {i \in 1..Len(name) : name[i] = "."}
    IN  IF dots = {} THEN 0 ELSE CHOOSE i \in dots : \A j \in dots : j <= i

\* Path::file_stem: the name before its final ".", the whole name when it has
\* no "." or only a leading one.
file_stem(name) ==
    LET d == LastDot(name)
    IN  IF d <= 1 THEN name ELSE SubSeq(name, 1, d - 1)

\* The sort key of main: the number of "_"-separated pieces of the stem.
sort_key(f) == Len(Split(file_stem(f.name), "_"))

\* slice::sort_by_cached_key is a stable sort.  InsertByKey puts x, which
\* came later than the elements of sorted, behind every element whose key
\* is not larger.
RECURSIVE InsertByKey(_, _)
InsertByKey(sorted, x) ==
    IF sorted = << >> THEN <<x>>
    ELSE IF sort_key(Head(sorted)) <= sort_key(x)
         THEN <<Head(sorted)>> \o InsertByKey(Tail(sorted), x)
         ELSE <<x>> \o sorted

RECURSIVE sort_by_cached_key(_)
sort_by_cached_key(ps) ==
    IF ps = << >> THEN << >>
    ELSE InsertByKey(sort_by_cached_key(SubSeq(ps, 1, Len(ps) - 1)), ps[Len(ps)])

(***************************************************************************)
(* The label resolver                                                      *)
(***************************************************************************)

EdgeNames ==
    [n \in {"isPartOf", "isSubclassOf", "isLocatedIn", "hasType", "hasCreator",
            "replyOf", "containerOf", "hasMember", "hasModerator", "hasTag",
            "hasInterest", "knows", "likes", "studyAt", "workAt"} |->
        CASE n = "isPartOf" -> "IS_PART_OF"
          [] n = "isSubclassOf" -> "IS_SUBCLASS_OF"
          [] n = "isLocatedIn" -> "IS_LOCATED_IN"
          [] n = "hasType" -> "HAS_TYPE"
          [] n = "hasCreator" -> "HAS_CREATOR"
          [] n = "replyOf" -> "REPLY_OF"
          [] n = "containerOf" -> "CONTAINER_OF"
          [] n = "hasMember" -> "HAS_MEMBER"
          [] n = "hasModerator" -> "HAS_MODERATOR"
          [] n = "hasTag" -> "HAS_TAG"
          [] n = "hasInterest" -> "HAS_INTEREST"
          [] n = "knows" -> "KNOWS"
          [] n = "likes" -> "LIKES"
          [] n = "studyAt" -> "STUDY_AT"
          [] n = "workAt" -> "WORK_AT"]

VertexNames ==
    [n \in {"place", "organisation", "tagclass", "tag", "comment", "forum",
            "person", "post"} |->
        CASE n = "place" -> "Place"
          [] n = "organisation" -> "Organisation"
          [] n = "tagclass" -> "TagClass"
          [] n = "tag" -> "Tag"
          [] n = "comment" -> "Comment"
          [] n = "forum" -> "Forum"
          [] n = "person" -> "Person"
          [] n = "post" -> "Post"]

\* The closure resolve_edge_name: Some(canonical name) or None.
resolve_edge_name(tok) ==
    IF Len(tok) = 1 /\ tok[1] \in DOMAIN EdgeNames THEN Some(S(EdgeNames[tok[1]]))
    ELSE None

\* The closure resolve_vertex_name.
resolve_vertex_name(tok) ==
    IF Len(tok) = 1 /\ tok[1] \in DOMAIN VertexNames THEN Some(S(VertexNames[tok[1]]))
    ELSE None

\* A resolver that takes a file for a vertex file without looking at its
\* third piece.
resolve_file_name_TwoPieces(name) ==
    LET v == Split(name, "_")
    IN  IF Len(v) < 3 THEN Panic
        ELSE LET s == resolve_vertex_name(v[1])
                 e == resolve_edge_name(v[2])
                 d == resolve_vertex_name(v[3])
             IN  IF s # None /\ e # None /\ d # None
                    THEN [kind |-> "Edge", src |-> Unwrap(s), edge |-> Unwrap(e),
                          dst |-> Unwrap(d)]
                 ELSE IF s # None /\ e = None
                    THEN [kind |-> "Vertex", label |-> Unwrap(s)]
                 ELSE Panic

\* resolve_file_name: LabelName::Vertex, LabelName::Edge, or a panic (fewer
\* than three pieces: v[2] is out of bounds; a combination that is neither).
resolve_file_name(name) ==
    LET v == Split(name, "_")
    IN  IF Len(v) < 3 THEN Panic
        ELSE LET s == resolve_vertex_name(v[1])
                 e == resolve_edge_name(v[2])
                 d == resolve_vertex_name(v[3])
             IN  IF s # None /\ e # None /\ d # None
                    THEN [kind |-> "Edge", src |-> Unwrap(s), edge |-> Unwrap(e),
                          dst |-> Unwrap(d)]
                 ELSE IF s # None /\ e = None /\ d = None
                    THEN [kind |-> "Vertex", label |-> Unwrap(s)]
                 ELSE Panic

(***************************************************************************)
(* Identifier fields                                                       *)
(***************************************************************************)

Digits == {"0", "1", "2", "3", "4", "5", "6", "7", "8", "9"}

DigitVal(c) == CHOOSE n \in 0..9 : <<"0", "1", "2", "3", "4", "5", "6", "7", "8", "9">>[n + 1] = c

\* u64::MAX, 18446744073709551615, digit by digit.
U64Max ==
    <<"1", "8", "4", "4", "6", "7", "4", "4", "0", "7",
      "3", "7", "0", "9", "5", "5", "1", "6", "1", "5">>

RECURSIVE StripZeros(_)
StripZeros(ds) ==
    IF Len(ds) > 1 /\ ds[1] = "0" THEN StripZeros(Tail(ds)) ELSE ds

\* a <= b for two digit strings of the same length.
RECURSIVE DigitsLE(_, _)
DigitsLE(a, b) ==
    IF a = << >> THEN TRUE
    ELSE IF DigitVal(a[1]) # DigitVal(b[1]) THEN DigitVal(a[1]) < DigitVal(b[1])
    ELSE DigitsLE(Tail(a), Tail(b))

\* str::parse::<u64>: an optional "+", then one or more decimal digits, the
\* value at most u64::MAX.  The value is kept as its decimal digits without
\* leading zeros, which names the number uniquely at any width.
parse_u64(field) ==
    LET body == IF field # << >> /\ field[1] = "+" THEN Tail(field) ELSE field
    IN  IF body = << >> \/ \E i \in 1..Len(body) : body[i] \notin Digits THEN None
        ELSE LET n == StripZeros(body)
             IN  IF Len(n) > Len(U64Max) \/ (Len(n) = Len(U64Max) /\ ~DigitsLE(n, U64Max))
                 THEN None
                 ELSE Some(n)

(***************************************************************************)
(* Headers                                                                 *)
(***************************************************************************)

\* str::starts_with, for a prefix that is one atom.
starts_with(tok, a) == Len(tok) >= 1 /\ tok[1] = a

\* import_vertex's pass over the header, from column i (counted from 0) on:
\* the index of the LABEL column, or a panic.
RECURSIVE VertexHeaderFrom(_, _, _)
VertexHeaderFrom(header, i, label_index) ==
    IF i >= Len(header) THEN [kind |-> "Ok", label_index |-> label_index]
    ELSE LET v == Split(header[i + 1], ":")
         IN  IF Len(v) < 2 THEN Panic
             ELSE IF v[2] = S("LABEL")
                  THEN IF label_index # None THEN Panic
                       ELSE VertexHeaderFrom(header, i + 1, Some(i))
             ELSE IF starts_with(v[2], "ID")
                  THEN IF i # 0 THEN Panic
                       ELSE VertexHeaderFrom(header, i + 1, label_index)
             ELSE VertexHeaderFrom(header, i + 1, label_index)

VertexHeader(header) == VertexHeaderFrom(header, 0, None)

\* The registry an endpoint declared as `label` resolves through, given the
\* endpoint's map so far: Organisation and Place take one, once.
EndpointMap(label, map) ==
    IF label = S("Organisation")
    THEN IF map # None THEN Panic ELSE [kind |-> "Ok", map |-> Some("organisation")]
    ELSE IF label = S("Place")
    THEN IF map # None THEN Panic ELSE [kind |-> "Ok", map |-> Some("place")]
    ELSE [kind |-> "Ok", map |-> map]

\* import_edge's pass over the header: the registries of the two endpoints,
\* or a panic.
RECURSIVE EdgeHeaderFrom(_, _, _, _, _, _)
EdgeHeaderFrom(header, i, src_label, dst_label, src_label_map, dst_label_map) ==
    IF i >= Len(header)
    THEN [kind |-> "Ok", src_label_map |-> src_label_map, dst_label_map |-> dst_label_map]
    ELSE LET v == Split(header[i + 1], ":")
         IN  IF Len(v) < 2 THEN Panic
             ELSE IF starts_with(v[2], "START_ID")
                  THEN LET m == EndpointMap(src_label, src_label_map)
                       IN  IF i # 0 \/ m.kind = "Panic" THEN Panic
                           ELSE EdgeHeaderFrom(header, i + 1, src_label, dst_label,
                                               m.map, dst_label_map)
             ELSE IF starts_with(v[2], "END_ID")
                  THEN LET m == EndpointMap(dst_label, dst_label_map)
                       IN  IF i # 1 \/ m.kind = "Panic" THEN Panic
                           ELSE EdgeHeaderFrom(header, i + 1, src_label, dst_label,
                                               src_label_map, m.map)
             ELSE EdgeHeaderFrom(header, i + 1, src_label, dst_label,
                                 src_label_map, dst_label_map)

EdgeHeader(header, src_label, dst_label) ==
    EdgeHeaderFrom(header, 0, src_label, dst_label, None, None)

(***************************************************************************)
(* The accumulator                                                         *)
(***************************************************************************)

\* A HashMap is a function on the set of its keys.
EmptyMap == [k \in {} |-> 0]

\* HashMap::entry(k).or_insert(v), as the map it leaves.
entry_or_insert(m, k, v) ==
    IF k \in DOMAIN m THEN m
    ELSE [x \in DOMAIN m \cup {k} |-> IF x = k THEN v ELSE m[x]]

\* *m.entry(k).or_insert(0.0) += 1.0
Increment(m, k) ==
    LET m1 == entry_or_insert(m, k, 0)
    IN  [m1 EXCEPT ![k] = @ + 1]

\* HashMap::insert: the map with k bound to v.
insert(m, k, v) == [x \in DOMAIN m \cup {k} |-> IF x = k THEN v ELSE m[x]]

PlaceLabels == {S("City"), S("Country"), S("Continent")}
OrganisationLabels == {S("University"), S("Company")}

\* A row counted under its label alone.
CountVertex_LabelOnly(vc, label) == Increment(vc, label)

\* The two counters a vertex row increments, in the code's order.
CountVertex(vc, label) == Increment(Increment(vc, label), Wild)

\* The loop body without its two assert!s: insert overwrites.
VertexRow_Overwrite(record, label_index, label_name, vc, pl, org) ==
    IF label_index # None /\ Unwrap(label_index) + 1 > Len(record) THEN Panic
    ELSE
    LET label == IF label_index # None THEN record[Unwrap(label_index) + 1]
                 ELSE label_name
        family == IF label_index = None THEN "none"
                  ELSE IF label \in PlaceLabels THEN "place"
                  ELSE IF label \in OrganisationLabels THEN "organisation"
                  ELSE "none"
        id == IF family = "none" \/ record = << >> THEN None ELSE parse_u64(record[1])
    IN  IF family # "none" /\ id = None THEN Panic
        ELSE [kind |-> "Ok",
              place |-> IF family = "place" THEN insert(pl, Unwrap(id), label) ELSE pl,
              organisation |-> IF family = "organisation"
                               THEN insert(org, Unwrap(id), label) ELSE org,
              vertex_cardinality |-> Increment(Increment(vc, label), Wild)]

\* The body of import_vertex's consumer loop for one record: the registries
\* and the vertex table it leaves, or a panic.
VertexRow(record, label_index, label_name, vc, pl, org) ==
    IF label_index # None /\ Unwrap(label_index) + 1 > Len(record) THEN Panic
    ELSE
    LET label == IF label_index # None THEN record[Unwrap(label_index) + 1]
                 ELSE label_name
        family == IF label_index = None THEN "none"
                  ELSE IF label \in PlaceLabels THEN "place"
                  ELSE IF label \in OrganisationLabels THEN "organisation"
                  ELSE "none"
        id == IF family = "none" \/ record = << >> THEN None ELSE parse_u64(record[1])
    IN  IF family # "none" /\ id = None THEN Panic
        ELSE IF family = "place" /\ Unwrap(id) \in DOMAIN pl THEN Panic
        ELSE IF family = "organisation" /\ Unwrap(id) \in DOMAIN org THEN Panic
        ELSE [kind |-> "Ok",
              place |-> IF family = "place" THEN insert(pl, Unwrap(id), label) ELSE pl,
              organisation |-> IF family = "organisation"
                               THEN insert(org, Unwrap(id), label) ELSE org,
              vertex_cardinality |-> CountVertex(vc, label)]

\* A loop over [dst_label] alone: the wildcard destination is not counted.
CountDst_NoWildcard(edge_entry, dst_label) == Increment(edge_entry, dst_label)

\* The innermost loop of import_edge: dst_key over [dst_label, ""].
CountDst(edge_entry, dst_label) == Increment(Increment(edge_entry, dst_label), Wild)

\* One pass of the middle loop, for edge_key.
CountEdgeKey(src_entry, edge_key, dst_label) ==
    LET m1 == entry_or_insert(src_entry, edge_key, EmptyMap)
    IN  [m1 EXCEPT ![edge_key] = CountDst(@, dst_label)]

\* A loop over [""] alone: only the roll-up over the edge label is counted.
CountEdgeKeys_OnlyWildcard(src_entry, edge_label, dst_label) ==
    CountEdgeKey(src_entry, Wild, dst_label)

\* The middle loop: edge_key over [edge_label, ""].
CountEdgeKeys(src_entry, edge_label, dst_label) ==
    CountEdgeKey(CountEdgeKey(src_entry, edge_label, dst_label), Wild, dst_label)

\* One pass of the outer loop, for src_key.
CountSrcKey(ec, src_key, edge_label, dst_label) ==
    LET m1 == entry_or_insert(ec, src_key, EmptyMap)
    IN  [m1 EXCEPT ![src_key] = CountEdgeKeys(@, edge_label, dst_label)]

\* The outer loop: src_key over [src_label, ""].
CountEdge(ec, src_label, edge_label, dst_label) ==
    CountSrcKey(CountSrcKey(ec, src_label, edge_label, dst_label), Wild,
                edge_label, dst_label)

\* The registry an endpoint map names.
Registry(map, pl, org) == IF Unwrap(map) = "place" THEN pl ELSE org

\* A lookup that tries the other family's registry when the endpoint's own
\* does not hold the identifier.
EndpointLabel_EitherRegistry(map, fixed, id, pl, org) ==
    IF map = None THEN Some(fixed)
    ELSE IF id \in DOMAIN Registry(map, pl, org) THEN Some(Registry(map, pl, org)[id])
    ELSE IF id \in DOMAIN pl THEN Some(pl[id])
    ELSE IF id \in DOMAIN org THEN Some(org[id])
    ELSE None

\* The label of one endpoint of an edge row: the file's label, the label
\* registered for the identifier, or None when the identifier is not
\* registered (the unwrap of HashMap::get panics).
EndpointLabel(map, fixed, id, pl, org) ==
    IF map = None THEN Some(fixed)
    ELSE IF id \in DOMAIN Registry(map, pl, org) THEN Some(Registry(map, pl, org)[id])
    ELSE None

\* The labels import_edge resolves for one record, or a panic.
ResolveEdgeRow(record, tsk, src_label_map, dst_label_map, pl, org) ==
    IF Len(record) < 2 THEN Panic
    ELSE LET src_id == parse_u64(record[1])
             dst_id == parse_u64(record[2])
         IN  IF src_id = None \/ dst_id = None THEN Panic
             ELSE LET s == EndpointLabel(src_label_map, tsk.src, Unwrap(src_id), pl, org)
                      d == EndpointLabel(dst_label_map, tsk.dst, Unwrap(dst_id), pl, org)
                  IN  IF s = None \/ d = None THEN Panic
                      ELSE [kind |-> "Ok", src |-> Unwrap(s), edge |-> tsk.edge,
                            dst |-> Unwrap(d)]

\* The body of import_edge's consumer loop for one record: the edge table it
\* leaves, or a panic.
EdgeRow(record, tsk, src_label_map, dst_label_map, ec, pl, org) ==
    LET r == ResolveEdgeRow(record, tsk, src_label_map, dst_label_map, pl, org)
    IN  IF r.kind = "Panic" THEN Panic
        ELSE [kind |-> "Ok", edge_cardinality |-> CountEdge(ec, r.src, r.edge, r.dst)]

(***************************************************************************)
(* Inputs: directory listings                                              *)
(***************************************************************************)

\* The most files a listing holds, and the most data records it holds over
\* all its files.
MaxFiles == 2
MaxRows == 3

\* File names.
PersonCsv == <<"person", "_", "0", "_", "0", ".", "csv">>
PlaceCsv == <<"place", "_", "0", "_", "0", ".", "csv">>
OrganisationCsv == <<"organisation", "_", "0", "_", "0", ".", "csv">>
KnowsCsv == <<"person", "_", "knows", "_", "person", "_", "0", "_", "0", ".", "csv">>
LikesCsv == <<"person", "_", "likes", "_", "post", "_", "0", "_", "0", ".", "csv">>
LocatedCsv ==
    <<"organisation", "_", "isLocatedIn", "_", "place", "_", "0", "_", "0", ".", "csv">>
\* person_0.csv: two pieces.
PersonShortCsv == <<"person", "_", "0", ".", "csv">>
\* person_0_0_0_0_0.csv: a vertex file of six pieces.
PersonLongCsv ==
    <<"person", "_", "0", "_", "0", "_", "0", "_", "0", "_", "0", ".", "csv">>
\* person_0_0.a_b: the extension holds a "_".
PersonExtCsv == <<"person", "_", "0", "_", "0", ".", "a", "_", "b">>
\* person_knows_person: an edge file of three pieces, no extension.
KnowsBare == <<"person", "_", "knows", "_", "person">>
\* person_knows_0.csv and knows_0_0.csv: neither a vertex nor an edge file.
KnowsHalfCsv == <<"person", "_", "knows", "_", "0", ".", "csv">>
KnowsOnlyCsv == <<"knows", "_", "0", "_", "0", ".", "csv">>

\* Headers.
IdCol == <<"id", ":", "ID">>
NameCol == <<"name", ":", "string">>
LabelCol == <<":", "LABEL">>
StartCol == <<":", "START_ID", "(Person)">>
EndCol == <<":", "END_ID", "(Person)">>

PlainHeader == <<IdCol, NameCol>>
LabelHeader == <<IdCol, LabelCol>>
EdgeFileHeader == <<StartCol, EndCol>>

File(name, header, records) ==
    [name |-> name, header |-> header, records |-> records]

\* The files of a directory whose rows vary, for listings in every
\* enumeration order within MaxFiles and MaxRows: each has its name, its header
\* and the records its rows are drawn from.  "01" and "1" are one identifier,
\* "x" is none; a record of one field under a header of two is malformed.
DataKinds ==
    { [name |-> PlaceCsv, header |-> LabelHeader,
       rows |-> { <<S("1"), S("City")>>, <<<<"0", "1">>, S("Country")>>,
                  <<S("1"), S("Company")>>, <<S("1"), Wild>>, <<S("1")>> }],
      [name |-> OrganisationCsv, header |-> LabelHeader,
       rows |-> { <<S("1"), S("Company")>>, <<S("x"), S("University")>> }],
      [name |-> PersonCsv, header |-> PlainHeader,
       rows |-> { <<S("1"), S("bob")>>, <<S("x"), Wild>> }],
      [name |-> KnowsCsv, header |-> EdgeFileHeader,
       rows |-> { <<S("1"), S("2")>>, <<S("1"), S("x")>>, <<S("1")>> }],
      [name |-> LikesCsv, header |-> EdgeFileHeader,
       rows |-> { <<S("1"), S("2")>> }],
      [name |-> LocatedCsv, header |-> EdgeFileHeader,
       rows |-> { <<S("1"), S("1")>>, <<<<"+", "1">>, <<"0", "1">>>>,
                  <<S("1"), S("3")>> }] }

\* The sequences over A of length at most n.
SeqsUpTo(A, n) == UNION {[1..k -> A] : k \in 0..n}

RECURSIVE TotalRows(_)
TotalRows(l) == IF l = << >> THEN 0 ELSE Len(Head(l).records) + TotalRows(Tail(l))

NamesOf(l) == {l[i].name : i \in 1..Len(l)}

\* The files of a kind of K that may follow the listing l: a name not yet in
\* it, and rows within what MaxRows leaves.
NextFiles(l, K) ==
    UNION { { File(k.name, k.header, r) :
                r \in SeqsUpTo(k.rows, MaxRows - TotalRows(l)) } :
            k \in {x \in K : x.name \notin NamesOf(l)} }

\* The listings of at most n files of the kinds of K.
RECURSIVE ListingsOf(_, _)
ListingsOf(K, n) ==
    IF n <= 0 THEN {<< >>}
    ELSE LET L == ListingsOf(K, n - 1)
         IN  L \cup UNION { {Append(l, f) : f \in NextFiles(l, K)} : l \in L }

\* The files of a directory whose names vary.
NameKinds ==
    { [name |-> PersonCsv, header |-> PlainHeader, rows |-> {}],
      [name |-> PlaceCsv, header |-> PlainHeader, rows |-> {}],
      [name |-> PersonShortCsv, header |-> PlainHeader, rows |-> {}],
      [name |-> PersonLongCsv, header |-> PlainHeader, rows |-> {}],
      [name |-> PersonExtCsv, header |-> PlainHeader, rows |-> {}],
      [name |-> KnowsCsv, header |-> EdgeFileHeader, rows |-> {}],
      [name |-> KnowsBare, header |-> EdgeFileHeader, rows |-> {}],
      [name |-> KnowsHalfCsv, header |-> EdgeFileHeader, rows |-> {}],
      [name |-> KnowsOnlyCsv, header |-> EdgeFileHeader, rows |-> {}] }

\* Listings whose headers break the column schema.
HeaderListings ==
    { <<File(PersonCsv, <<NameCol, IdCol>>, << >>)>>,
      <<File(PlaceCsv, <<IdCol, LabelCol, LabelCol>>, << >>)>>,
      <<File(PersonCsv, <<S("id")>>, << >>)>>,
      <<File(KnowsCsv, <<EndCol, StartCol>>, << >>)>> }

\* Three person rows, for a file without a LABEL column.
ThreeRows ==
    << <<S("1"), S("bob")>>, <<S("2"), S("bob")>>, <<S("3"), S("bob")>> >>

\* A directory that holds person_0.csv alone, and one that holds
\* person_0_0.csv alone, each with the three rows.
TwoPieceListing == <<File(PersonShortCsv, PlainHeader, ThreeRows)>>
ThreePieceListing == <<File(PersonCsv, PlainHeader, ThreeRows)>>

(***************************************************************************)
(* The run: main, one producer task per file, the consumer loops           *)
(***************************************************************************)

\* sync_channel::<Vec<String>>(1024)
ChannelCapacity == 1024

VARIABLES
    pc,                 \* where main is: "collect", "sort", "next" (top of the
                        \* loop over paths), "consume" (inside a consumer
                        \* loop), "done", "aborted" (main panicked: the
                        \* process is gone)
    paths,              \* main's paths: the files, each with its name, its
                        \* header record and its data records
    idx,                \* the number of files whose import has returned
    task,               \* the LabelName of the file being imported
    label_index,        \* import_vertex's label_index
    src_label_map,      \* import_edge's src_label_map
    dst_label_map,      \* import_edge's dst_label_map
    producers,          \* the spawned tasks, by file: state and records read
    chans,              \* the channels' buffers, by file
    vertex_cardinality, \* context.statistics.vertex_cardinality
    edge_cardinality,   \* context.statistics.edge_cardinality
    place,              \* context.place
    organisation,       \* context.organisation
    output,             \* what was written to output_file
    started,            \* history: the kind of each import begun, in order
    consumed,           \* history: the records received from each channel
    counted             \* history: the rows accumulated, by kind of file

vars ==
    <<pc, paths, idx, task, label_index, src_label_map, dst_label_map,
      producers, chans, vertex_cardinality, edge_cardinality, place,
      organisation, output, started, consumed, counted>>

NoTask == [kind |-> "None"]

locals == <<task, label_index, src_label_map, dst_label_map>>
tables == <<vertex_cardinality, edge_cardinality, place, organisation>>

\* The state main starts in: nothing read yet, the tables of
\* Context::default().
Init ==
    /\ pc = "collect"
    /\ paths = << >>
    /\ idx = 0
    /\ task = NoTask
    /\ label_index = None
    /\ src_label_map = None
    /\ dst_label_map = None
    /\ producers = << >>
    /\ chans = << >>
    /\ vertex_cardinality = EmptyMap
    /\ edge_cardinality = EmptyMap
    /\ place = EmptyMap
    /\ organisation = EmptyMap
    /\ output = None
    /\ started = << >>
    /\ consumed = << >>
    /\ counted = [Vertex |-> 0, Edge |-> 0]

\* main collects the entries of the two directories into paths: a listing
\* of X, or a listing of one to MaxFiles files of a family of KS.
CollectOf(KS, X) ==
    /\ pc = "collect"
    /\ \/ \E l \in X : paths' = l
       \/ \E K \in KS :
             \E p \in ListingsOf(K, MaxFiles - 1) :
               \E f \in NextFiles(p, K) : paths' = Append(p, f)
    /\ pc' = "sort"
    /\ UNCHANGED <<idx, locals, producers, chans, tables, output, started,
                   consumed, counted>>

CollectPaths == CollectOf({DataKinds, NameKinds}, {<< >>} \cup HeaderListings)

\* paths.sort_by_cached_key(...)
SortPaths ==
    /\ pc = "sort"
    /\ paths' = sort_by_cached_key(paths)
    /\ pc' = "next"
    /\ UNCHANGED <<idx, locals, producers, chans, tables, output, started,
                   consumed, counted>>

\* The file main's loop is at.
CurFile == paths[idx + 1]

\* tokio::spawn of the producer and sync_channel: a new task and an empty
\* buffer for the file main is at.
Spawn ==
    /\ producers' = Append(producers, [state |-> "running", pos |-> 0])
    /\ chans' = Append(chans, << >>)
    /\ consumed' = Append(consumed, << >>)

\* main's loop reaches a file whose name resolve_file_name panics on.
ResolvePanic ==
    /\ pc = "next"
    /\ idx < Len(paths)
    /\ resolve_file_name(CurFile.name).kind = "Panic"
    /\ pc' = "aborted"
    /\ UNCHANGED <<paths, idx, locals, producers, chans, tables, output,
                   started, consumed, counted>>

\* main's loop reaches a vertex file: import_vertex up to the consumer loop.
ImportVertexBegin ==
    /\ pc = "next"
    /\ idx < Len(paths)
    /\ LET ln == resolve_file_name(CurFile.name)
       IN  /\ ln.kind = "Vertex"
           /\ started' = Append(started, "Vertex")
           /\ LET h == VertexHeader(CurFile.header)
              IN  IF h.kind = "Panic"
                  THEN /\ pc' = "aborted"
                       /\ UNCHANGED <<locals, producers, chans, consumed>>
                  ELSE /\ pc' = "consume"
                       /\ task' = ln
                       /\ label_index' = h.label_index
                       /\ UNCHANGED <<src_label_map, dst_label_map>>
                       /\ Spawn
    /\ UNCHANGED <<paths, idx, tables, output, counted>>

\* main's loop reaches an edge file: import_edge up to the consumer loop.
ImportEdgeBegin ==
    /\ pc = "next"
    /\ idx < Len(paths)
    /\ LET ln == resolve_file_name(CurFile.name)
       IN  /\ ln.kind = "Edge"
           /\ started' = Append(started, "Edge")
           /\ LET h == EdgeHeader(CurFile.header, ln.src, ln.dst)
              IN  IF h.kind = "Panic"
                  THEN /\ pc' = "aborted"
                       /\ UNCHANGED <<locals, producers, chans, consumed>>
                  ELSE /\ pc' = "consume"
                       /\ task' = ln
                       /\ src_label_map' = h.src_label_map
                       /\ dst_label_map' = h.dst_label_map
                       /\ UNCHANGED label_index
                       /\ Spawn
    /\ UNCHANGED <<paths, idx, tables, output, counted>>

\* The tasks of the runtime run while main does.
Running(i) ==
    /\ pc \in {"next", "consume"}
    /\ i \in DOMAIN producers
    /\ producers[i].state = "running"

\* The receiver of file i's channel lives during that file's consumer loop.
ReceiverAlive(i) == pc = "consume" /\ i = idx + 1

\* The csv reader yields Ok for a record with as many fields as the header.
WellFormed(f, record) == Len(record) = Len(f.header)

\* send on a channel without a bound.
SendOutcome_Unbounded(i) == IF ~ReceiverAlive(i) THEN "error" ELSE "sent"

\* What SyncSender::send does with a record for file i: "sent", "blocked"
\* on a full buffer, or "error" when the receiver is gone.
SendOutcome(i) ==
    IF ~ReceiverAlive(i) THEN "error"
    ELSE IF Len(chans[i]) >= ChannelCapacity THEN "blocked"
    ELSE "sent"

\* The producer of file i reads its next record and sends it.
ProducerSend(i) ==
    /\ Running(i)
    /\ producers[i].pos < Len(paths[i].records)
    /\ LET record == paths[i].records[producers[i].pos + 1]
       IN  /\ WellFormed(paths[i], record)
           /\ SendOutcome(i) # "blocked"
           /\ IF SendOutcome(i) = "sent"
              THEN /\ chans' = [chans EXCEPT ![i] = Append(@, record)]
                   /\ producers' = [producers EXCEPT ![i].pos = @ + 1]
              ELSE /\ producers' = [producers EXCEPT ![i].state = "panicked"]
                   /\ UNCHANGED chans
    /\ UNCHANGED <<pc, paths, idx, locals, tables, output, started, consumed,
                   counted>>

\* The producer of file i reads a record the reader reports an error for:
\* record.unwrap() panics inside the task, the runtime catches the panic and
\* drops the task, and with it tx.
ProducerPanic(i) ==
    /\ Running(i)
    /\ producers[i].pos < Len(paths[i].records)
    /\ ~WellFormed(paths[i], paths[i].records[producers[i].pos + 1])
    /\ producers' = [producers EXCEPT ![i].state = "panicked"]
    /\ UNCHANGED <<pc, paths, idx, locals, chans, tables, output, started,
                   consumed, counted>>

\* The producer of file i finds the file exhausted and ends, dropping tx.
ProducerFinish(i) ==
    /\ Running(i)
    /\ producers[i].pos = Len(paths[i].records)
    /\ producers' = [producers EXCEPT ![i].state = "finished"]
    /\ UNCHANGED <<pc, paths, idx, locals, chans, tables, output, started,
                   consumed, counted>>

\* rx yields the oldest record of the buffer.
Receive ==
    /\ chans[idx + 1] # << >>
    /\ chans' = [chans EXCEPT ![idx + 1] = Tail(@)]
    /\ consumed' = [consumed EXCEPT ![idx + 1] = Append(@, Head(chans[idx + 1]))]

\* One pass of import_vertex's consumer loop.
ConsumeVertex ==
    /\ pc = "consume"
    /\ task.kind = "Vertex"
    /\ Receive
    /\ LET r == VertexRow(Head(chans[idx + 1]), label_index, task.label,
                          vertex_cardinality, place, organisation)
       IN  IF r.kind = "Panic"
           THEN /\ pc' = "aborted"
                /\ UNCHANGED <<tables, counted>>
           ELSE /\ vertex_cardinality' = r.vertex_cardinality
                /\ place' = r.place
                /\ organisation' = r.organisation
                /\ counted' = [counted EXCEPT !.Vertex = @ + 1]
                /\ UNCHANGED <<pc, edge_cardinality>>
    /\ UNCHANGED <<paths, idx, locals, producers, output, started>>

\* One pass of import_edge's consumer loop.
ConsumeEdge ==
    /\ pc = "consume"
    /\ task.kind = "Edge"
    /\ Receive
    /\ LET r == EdgeRow(Head(chans[idx + 1]), task, src_label_map, dst_label_map,
                        edge_cardinality, place, organisation)
       IN  IF r.kind = "Panic"
           THEN /\ pc' = "aborted"
                /\ UNCHANGED <<tables, counted>>
           ELSE /\ edge_cardinality' = r.edge_cardinality
                /\ counted' = [counted EXCEPT !.Edge = @ + 1]
                /\ UNCHANGED <<pc, vertex_cardinality, place, organisation>>
    /\ UNCHANGED <<paths, idx, locals, producers, output, started>>

\* The loop ends on an empty buffer, as a loop over try_iter would.
EndOfStream_OnEmpty(i) == chans[i] = << >>

\* The loop ends only after a producer that read its whole file, as it would
\* were a panicking task to keep its sender.
EndOfStream_OnFinish(i) == chans[i] = << >> /\ producers[i].state = "finished"

\* rx reports the end of the stream when the buffer is empty and the sender
\* is dropped.
EndOfStream(i) == chans[i] = << >> /\ producers[i].state # "running"

\* The consumer loop ends and import_vertex or import_edge returns.
ImportEnd ==
    /\ pc = "consume"
    /\ EndOfStream(idx + 1)
    /\ pc' = "next"
    /\ idx' = idx + 1
    /\ task' = NoTask
    /\ label_index' = None
    /\ src_label_map' = None
    /\ dst_label_map' = None
    /\ UNCHANGED <<paths, producers, chans, tables, output, started, consumed,
                   counted>>

\* After the last file main writes the statistics.
WriteOutput ==
    /\ pc = "next"
    /\ idx = Len(paths)
    /\ output' = Some([vertex_cardinality |-> vertex_cardinality,
                       edge_cardinality |-> edge_cardinality])
    /\ pc' = "done"
    /\ UNCHANGED <<paths, idx, locals, producers, chans, tables, started,
                   consumed, counted>>

\* The steps of main's loop over paths, consumer loops included.
MainLoop ==
    \/ ResolvePanic
    \/ ImportVertexBegin
    \/ ImportEdgeBegin
    \/ ConsumeVertex
    \/ ConsumeEdge
    \/ ImportEnd
    \/ WriteOutput

\* The steps of the producer of file i.
ProducerStep(i) == ProducerSend(i) \/ ProducerPanic(i) \/ ProducerFinish(i)

\* The steps of a run once paths is collected.
Run ==
    \/ SortPaths
    \/ ResolvePanic
    \/ ImportVertexBegin
    \/ ImportEdgeBegin
    \/ \E i \in DOMAIN producers : ProducerSend(i)
    \/ \E i \in DOMAIN producers : ProducerPanic(i)
    \/ \E i \in DOMAIN producers : ProducerFinish(i)
    \/ ConsumeVertex
    \/ ConsumeEdge
    \/ ImportEnd
    \/ WriteOutput

Next == CollectPaths \/ Run

Spec == Init /\ [][Next]_vars

(***************************************************************************)
(* Reading the tables                                                      *)
(***************************************************************************)

\* A counter of a one-level table, 0 when the key is absent.
Count(m, k) == IF k \in DOMAIN m THEN m[k] ELSE 0

\* A counter of the edge table, 0 when the entry is absent.
EdgeCount(ec, s, e, d) ==
    IF s \in DOMAIN ec /\ e \in DOMAIN ec[s] /\ d \in DOMAIN ec[s][e]
    THEN ec[s][e][d] ELSE 0

\* The entries the edge table holds.
EdgeEntries(ec) ==
    UNION { UNION { { <<s, e, d>> : d \in DOMAIN ec[s][e] } : e \in DOMAIN ec[s] } :
            s \in DOMAIN ec }

\* The keys in use at each level of the edge table.
EdgeKeys(ec, level) == { t[level] : t \in EdgeEntries(ec) }

RECURSIVE SumOver(_, _)
SumOver(f, K) ==
    IF K = {} THEN 0
    ELSE LET k == CHOOSE x \in K : TRUE IN f[k] + SumOver(f, K \ {k})

\* The sum of the counters of a one-level table over the keys of K.
SumCounts(m, K) == SumOver([k \in K |-> Count(m, k)], K)

(***************************************************************************)
(* Claims                                                                  *)
(***************************************************************************)

\* C1: in every state vertex_cardinality[""] equals the sum of
\* vertex_cardinality[L] over the concrete labels L, whatever the rows'
\* label fields are, the empty string included.
C1_WildcardIsSumOfLabels ==
    Count(vertex_cardinality, Wild) =
        SumCounts(vertex_cardinality, DOMAIN vertex_cardinality \ {Wild})

\* A step of import_edge's consumer loop that accumulates its record.
EdgeRowCounted ==
    /\ pc = "consume" /\ task.kind = "Edge"
    /\ consumed' # consumed
    /\ pc' = "consume"

\* The eight entries of the labels (s, e, d).
Lattice(s, e, d) == {s, Wild} \X {e, Wild} \X {d, Wild}

\* C2: a consumed edge row with resolved labels (s, e, d) adds exactly 1 to
\* each of the 8 counters keyed by {s, ""} x {e, ""} x {d, ""}, an absent one
\* counting from 0, and leaves every other edge counter as it was, none
\* created.
C2_EdgeRowIncrementsLattice ==
    [][EdgeRowCounted =>
        LET r == ResolveEdgeRow(Head(chans[idx + 1]), task, src_label_map,
                                dst_label_map, place, organisation)
            L == Lattice(r.src, r.edge, r.dst)
        IN  /\ Cardinality(L) = 8
            /\ EdgeEntries(edge_cardinality') = EdgeEntries(edge_cardinality) \cup L
            /\ \A t \in EdgeEntries(edge_cardinality') :
                 EdgeCount(edge_cardinality', t[1], t[2], t[3]) =
                   EdgeCount(edge_cardinality, t[1], t[2], t[3])
                     + (IF t \in L THEN 1 ELSE 0)]_vars

\* C2's case: an edge row whose two labels came from the registries is counted.
C2_Witness ==
    /\ counted.Edge = 1
    /\ EdgeCount(edge_cardinality, S("Company"), S("IS_LOCATED_IN"), S("City")) = 1

\* C3: in every state the edge table is a roll-up: the entry ["", "", ""] is
\* the number of edge rows accumulated so far, and every entry with a
\* wildcard in a position is the sum of the entries with each concrete label
\* in that position.
C3_EdgeTableIsRollUp ==
    LET ec == edge_cardinality
        Ks == EdgeKeys(ec, 1) \cup {Wild}
        Ke == EdgeKeys(ec, 2) \cup {Wild}
        Kd == EdgeKeys(ec, 3) \cup {Wild}
    IN  /\ EdgeCount(ec, Wild, Wild, Wild) = counted.Edge
        /\ \A s \in Ks, e \in Ke, d \in Kd :
             /\ EdgeCount(ec, Wild, e, d) =
                  SumOver([x \in Ks \ {Wild} |-> EdgeCount(ec, x, e, d)], Ks \ {Wild})
             /\ EdgeCount(ec, s, Wild, d) =
                  SumOver([x \in Ke \ {Wild} |-> EdgeCount(ec, s, x, d)], Ke \ {Wild})
             /\ EdgeCount(ec, s, e, Wild) =
                  SumOver([x \in Kd \ {Wild} |-> EdgeCount(ec, s, e, x)], Kd \ {Wild})

\* C3's case: rows of two edge files, with two edge labels and two
\* destination labels, are counted.
C3_Witness ==
    /\ counted.Edge = 2
    /\ EdgeCount(edge_cardinality, S("Person"), S("KNOWS"), S("Person")) = 1
    /\ EdgeCount(edge_cardinality, S("Person"), S("LIKES"), S("Post")) = 1

\* C4: a producer that failed on a record is fatal to the run: the import of
\* its file never returns as if the stream had ended, no later file is
\* imported and no output is written.
C4_ProducerFailureIsFatal ==
    \A i \in DOMAIN producers :
        producers[i].state = "panicked" => idx < i /\ pc # "done" /\ output = None

\* The listing holds only files the resolver accepts.
AllResolved == \A i \in 1..Len(paths) : resolve_file_name(paths[i].name).kind # "Panic"

\* C5: when the resolver accepts every file of the listing, no import of an
\* edge file begins before the import of a vertex file, in any enumeration
\* order.
C5_VertexFilesBeforeEdgeFiles ==
    AllResolved =>
        \A i, j \in 1..Len(started) :
            i < j => ~(started[i] = "Edge" /\ started[j] = "Vertex")

\* The records of a file the reader yields as records.
DataRecords(f) == SelectSeq(f.records, LAMBDA r : WellFormed(f, r))

\* C6: for each file whose import has returned, the records the accumulator
\* received are the data records of the file, in the file's order.
C6_ConsumedIsFileRecords ==
    \A i \in 1..idx : consumed[i] = DataRecords(paths[i])

\* C7: no channel ever holds more than 1024 records, and while a channel
\* holds 1024 its producer reads and sends nothing: the next change of the
\* buffer is the consumer's removal.
C7_ChannelBounded ==
    [][\A i \in DOMAIN chans' :
          /\ Len(chans'[i]) <= 1024
          /\ (i \in DOMAIN chans /\ Len(chans[i]) = 1024) =>
               /\ producers'[i].pos = producers[i].pos
               /\ Len(chans'[i]) <= Len(chans[i])]_vars

\* C7's case: the producer has a record to send and the buffer is full.
C7_Witness ==
    \E i \in DOMAIN chans :
        /\ Len(chans[i]) = 1024
        /\ producers[i].state = "running"
        /\ producers[i].pos < Len(paths[i].records)

\* The run is over: the output is written, or main panicked.
Finished == pc \in {"done", "aborted"}

PairCanStep ==
    pc = "consume" =>
        \/ chans[idx + 1] # << >>
        \/ EndOfStream(idx + 1)
        \/ producers[idx + 1].state = "running" /\ SendOutcome(idx + 1) # "blocked"

C9_OneFileAtATime ==
    /\ Cardinality({i \in DOMAIN producers : producers[i].state = "running"}) <= 1
    /\ \A i \in DOMAIN producers :
         (i <= idx \/ pc = "next") =>
            chans[i] = << >> /\ producers[i].state # "running"

\* C9's case: main begins the second file after a first file with rows.
C9_Witness ==
    /\ pc = "consume" /\ idx = 1
    /\ consumed[1] # << >>
    /\ producers[2].state = "running"

\* A step of import_vertex's consumer loop, for a file with a LABEL column.
LabelledRowReceived ==
    /\ pc = "consume" /\ task.kind = "Vertex"
    /\ consumed' # consumed
    /\ label_index # None

\* What C10 asks of a row labelled for the registry reg: a panic when its
\* identifier is in reg, and otherwise its registration in reg.
RegisterOrAbort(id, label, reg, regAfter) ==
    IF id \in DOMAIN reg
    THEN pc' = "aborted"
    ELSE pc' = "consume" /\ id \in DOMAIN regAfter /\ regAfter[id] = label

\* C10: a vertex row of the place family (City, Country, Continent) whose
\* identifier is registered in place aborts the run, and so does a row of the
\* organisation family (University, Company) whose identifier is registered
\* in organisation; an identifier registered in the other family alone does
\* not: the row is registered.
C10_DuplicateIdentifierAborts ==
    [][LabelledRowReceived =>
        LET record == Head(chans[idx + 1])
            label == record[Unwrap(label_index) + 1]
            id == parse_u64(record[1])
        IN  id # None =>
              /\ label \in PlaceLabels =>
                   RegisterOrAbort(Unwrap(id), label, place, place')
              /\ label \in OrganisationLabels =>
                   RegisterOrAbort(Unwrap(id), label, organisation, organisation')]_vars

\* C10's case: an identifier registered once in each family, and a panic on
\* a further row with it.
C10_Witness ==
    /\ pc = "aborted"
    /\ S("1") \in DOMAIN place
    /\ S("1") \in DOMAIN organisation
    /\ counted.Vertex = 2
    /\ Len(consumed[idx + 1]) = 3

\* The entries of the edge table whose counter a step changed.
ChangedEntries(ec, ecAfter) ==
    { t \in EdgeEntries(ecAfter) :
        EdgeCount(ecAfter, t[1], t[2], t[3]) # EdgeCount(ec, t[1], t[2], t[3]) }

\* The registry of the family a declared label names.
FamilyRegistry(label, pl, org) == IF label = S("Place") THEN pl ELSE org

\* The keys at a position of the changed entries are the label registered
\* for the identifier of `field` in the family of `declared`, and the
\* wildcard.
KeysAreRegistered(declared, field, position) ==
    LET id == parse_u64(field)
        reg == FamilyRegistry(declared, place, organisation)
    IN  /\ id # None
        /\ Unwrap(id) \in DOMAIN reg
        /\ { t[position] :
               t \in ChangedEntries(edge_cardinality, edge_cardinality') } =
             {reg[Unwrap(id)], Wild}

\* C11: for every counted edge row of a file whose source (destination)
\* label is Place or Organisation, the source (destination) keys of the
\* counters the row increments are the label registered for the row's
\* source (destination) identifier in that family's registry and the
\* wildcard, never the literal "Place" or "Organisation".
C11_EndpointKeyIsRegisteredLabel ==
    [][EdgeRowCounted =>
        LET record == Head(chans[idx + 1])
        IN  /\ task.src \in {S("Place"), S("Organisation")} =>
                 KeysAreRegistered(task.src, record[1], 1)
            /\ task.dst \in {S("Place"), S("Organisation")} =>
                 KeysAreRegistered(task.dst, record[2], 3)]_vars

\* The registry an endpoint of the declared label is to resolve through.
DeclaredMap(label) ==
    IF label = S("Place") THEN Some("place")
    ELSE IF label = S("Organisation") THEN Some("organisation")
    ELSE None

\* C12: inside the consumer loop of an edge file, whose header import_edge
\* has accepted, an endpoint resolves through a registry exactly when its
\* declared label is Place or Organisation, and then through that family's
\* registry; every other endpoint takes the file's fixed label.
C12_ResolvedExactlyForFamilies ==
    (pc = "consume" /\ task.kind = "Edge") =>
        /\ src_label_map = DeclaredMap(task.src)
        /\ dst_label_map = DeclaredMap(task.dst)

\* A step of import_edge's consumer loop, counted or not.
EdgeRowReceived ==
    /\ pc = "consume" /\ task.kind = "Edge"
    /\ consumed' # consumed

\* The identifier of `field` is not in the registry the endpoint resolves
\* through.
Unregistered(map, field) ==
    /\ map # None
    /\ parse_u64(field) # None
    /\ Unwrap(parse_u64(field)) \notin DOMAIN Registry(map, place, organisation)

Resolves(v, i, names) == Len(v) >= i /\ Len(v[i]) = 1 /\ v[i][1] \in DOMAIN names

\* C14: main's loop classifies the file it reaches by the first three
\* "_"-separated pieces of its name, each read in its own table.  When they
\* resolve as (vertex, edge, vertex) an edge import begins, its task holding
\* the three canonical names; when the first resolves as a vertex name, the
\* second is no edge name and the third no vertex name, a vertex import
\* begins under the canonical name of the first; in every other case
\* (fewer than three pieces included) the run aborts and no import begins.
C14_FileNameClassification ==
    [][(pc = "next" /\ idx < Len(paths)) =>
        LET v == Split(CurFile.name, "_")
            s == Resolves(v, 1, VertexNames)
            e == Resolves(v, 2, EdgeNames)
            d == Resolves(v, 3, VertexNames)
        IN  IF s /\ e /\ d
            THEN /\ started' = Append(started, "Edge")
                 /\ pc' = "consume" =>
                      task' = [kind |-> "Edge", src |-> S(VertexNames[v[1][1]]),
                               edge |-> S(EdgeNames[v[2][1]]),
                               dst |-> S(VertexNames[v[3][1]])]
            ELSE IF Len(v) >= 3 /\ s /\ ~e /\ ~d
            THEN /\ started' = Append(started, "Vertex")
                 /\ pc' = "consume" =>
                      task' = [kind |-> "Vertex", label |-> S(VertexNames[v[1][1]])]
            ELSE /\ pc' = "aborted"
                 /\ started' = started
                 /\ producers' = producers]_vars

\* C14's case: after a vertex file, the run aborted on a file whose first
\* and third pieces are vertex names and whose second is no edge name.
C14_Witness ==
    /\ pc = "aborted"
    /\ started = <<"Vertex">>
    /\ idx = 1
    /\ paths[2].name = <<"person", "_", "0", "_", "person">>

\* The run wrote its output with 3 persons counted, and 3 vertices in all.
ThreePersonsCounted ==
    /\ pc = "done"
    /\ Count(vertex_cardinality, S("Person")) = 3
    /\ Count(vertex_cardinality, Wild) = 3

\* C15, as stated: a run whose only input is person_0.csv, with 3 rows and
\* no LABEL column, completes with vertex_cardinality["Person"] = 3 and
\* vertex_cardinality[""] = 3.
C15_TwoPieceFileCounted ==
    (pc = "next" /\ paths = TwoPieceListing)
        ~> ThreePersonsCounted

\* C15, amended: a run whose only input is person_0_0.csv, with 3 rows and
\* no LABEL column, completes with vertex_cardinality["Person"] = 3 and
\* vertex_cardinality[""] = 3.
C15_ThreePieceFileCounted ==
    (pc = "next" /\ paths = ThreePieceListing)
        ~> ThreePersonsCounted

\* C15's case: the run over person_0_0.csv has written its output.
C15_Witness ==
    /\ pc = "done"
    /\ paths = ThreePieceListing
    /\ output = Some([vertex_cardinality |-> vertex_cardinality,
                      edge_cardinality |-> EmptyMap])
    /\ counted.Vertex = 3

\* An identifier field of the record is no unsigned 64-bit integer: the
\* first field of a vertex row, the first or the second of an edge row.
InvalidIdentifier(record) ==
    \/ parse_u64(record[1]) = None
    \/ task.kind = "Edge" /\ parse_u64(record[2]) = None

\* C16: every row the consumer receives, of a vertex file or of an edge
\* file, with an identifier field that is no valid unsigned 64-bit integer
\* aborts the run, and the row is not counted.
C16_InvalidIdentifierAborts ==
    [][(pc = "consume" /\ consumed' # consumed) =>
        (InvalidIdentifier(Head(chans[idx + 1])) =>
            /\ pc' = "aborted"
            /\ vertex_cardinality' = vertex_cardinality
            /\ edge_cardinality' = edge_cardinality)]_vars

\* A step of import_vertex's consumer loop that accumulates its record.
VertexRowCounted ==
    /\ pc = "consume" /\ task.kind = "Vertex"
    /\ consumed' # consumed
    /\ pc' = "consume"

\* C17: for each counted vertex row the label is the value of the row's
\* LABEL column when the header declares one and the file's fixed label
\* otherwise; the counter of that label and the counter of the wildcard are
\* each 1 more than before, and every other vertex counter is as before.
C17_VertexRowCountsLabelAndWildcard ==
    [][VertexRowCounted =>
        LET record == Head(chans[idx + 1])
            label == IF label_index # None THEN record[Unwrap(label_index) + 1]
                     ELSE task.label
        IN  /\ DOMAIN vertex_cardinality' = DOMAIN vertex_cardinality \cup {label, Wild}
            /\ Count(vertex_cardinality', label) = Count(vertex_cardinality, label) + 1
            /\ Count(vertex_cardinality', Wild) = Count(vertex_cardinality, Wild) + 1
            /\ \A k \in DOMAIN vertex_cardinality \ {label, Wild} :
                 vertex_cardinality'[k] = vertex_cardinality[k]]_vars

\* The labels of the place family and of the organisation family: the
\* family's own label, which a file without a LABEL column gives its rows,
\* and the concrete labels.
PlaceFamily == PlaceLabels \cup {S("Place")}
OrganisationFamily == OrganisationLabels \cup {S("Organisation")}

\* The registry holds the identifier of `field`.
Registered(reg, field) ==
    parse_u64(field) # None /\ Unwrap(parse_u64(field)) \in DOMAIN reg

\* C18: every counted vertex row whose label belongs to the place family
\* or to the organisation family is in that family's registry once it is
\* counted, whether the label comes from a LABEL column or is the fixed
\* label of a file without one; so the rows of an imported place or
\* organisation file each have their entry.
C18_FamilyRowsAreRegistered ==
    [][VertexRowCounted =>
        LET record == Head(chans[idx + 1])
            label == IF label_index # None THEN record[Unwrap(label_index) + 1]
                     ELSE task.label
        IN  /\ label \in PlaceFamily => Registered(place', record[1])
            /\ label \in OrganisationFamily =>
                 Registered(organisation', record[1])]_vars

\* Every entry of the registry reg is in regAfter, with its label.
EntriesKept(reg, regAfter) ==
    \A id \in DOMAIN reg : id \in DOMAIN regAfter /\ regAfter[id] = reg[id]

\* C19: a step changes the registries and the vertex table only inside the
\* import of a vertex file, and the edge table only inside the import of an
\* edge file; in a run that does not abort no step removes or overwrites a
\* registry entry, and no counter of either table decreases or disappears.
C19_TablesOnlyGrow ==
    [][/\ (place' # place \/ organisation' # organisation
             \/ vertex_cardinality' # vertex_cardinality) =>
                (pc = "consume" /\ task.kind = "Vertex")
       /\ edge_cardinality' # edge_cardinality =>
                (pc = "consume" /\ task.kind = "Edge")
       /\ pc' # "aborted" =>
            /\ EntriesKept(place, place')
            /\ EntriesKept(organisation, organisation')
            /\ \A k \in DOMAIN vertex_cardinality :
                 Count(vertex_cardinality', k) >= vertex_cardinality[k]
            /\ \A t \in EdgeEntries(edge_cardinality) :
                 EdgeCount(edge_cardinality', t[1], t[2], t[3]) >=
                   EdgeCount(edge_cardinality, t[1], t[2], t[3])]_vars

\* C19's case: a run that registered a place and an organisation, counted
\* an edge row between them and wrote its output.
C19_Witness ==
    /\ pc = "done"
    /\ DOMAIN place # {} /\ DOMAIN organisation # {}
    /\ counted.Vertex >= 2
    /\ counted.Edge >= 1

\* The columns of the header (counted from 0) whose type, the text after
\* the first ":", starts with `marker`; a column without a ":" has none.
ColumnsOf(header, marker) ==
    { i \in 0..(Len(header) - 1) :
        LET v == Split(header[i + 1], ":")
        IN  Len(v) >= 2 /\ starts_with(v[2], marker) }

\* The header of a vertex file breaks the column schema: no identifier
\* column, an identifier column that is not the first, or more than one
\* LABEL column.
VertexSchemaBroken(header) ==
    \/ ColumnsOf(header, "ID") = {}
    \/ ColumnsOf(header, "ID") # {0}
    \/ Cardinality(ColumnsOf(header, "LABEL")) > 1

\* The header of an edge file breaks the column schema: its START_ID column
\* is missing or not the first, its END_ID column missing or not the second.
EdgeSchemaBroken(header) ==
    \/ ColumnsOf(header, "START_ID") # {0}
    \/ ColumnsOf(header, "END_ID") # {1}

\* C20: when main reaches a file whose header breaks the column schema, the
\* run aborts there: no producer is spawned for the file and no row of it
\* is received.
C20_BrokenSchemaAborts ==
    [][(pc = "next" /\ idx < Len(paths)
          /\ resolve_file_name(CurFile.name).kind # "Panic") =>
        LET broken == IF resolve_file_name(CurFile.name).kind = "Vertex"
                      THEN VertexSchemaBroken(CurFile.header)
                      ELSE EdgeSchemaBroken(CurFile.header)
        IN  broken => pc' = "aborted" /\ producers' = producers]_vars

(***************************************************************************)
(* Specifications                                                          *)
(***************************************************************************)

\* The data records beyond the channel's capacity that the long file holds.
MaxExcess == 1

\* A vertex file of more records than a channel holds.
LongListing ==
    <<File(PersonCsv, <<IdCol>>,
           [n \in 1..(ChannelCapacity + MaxExcess) |-> <<S("1")>>])>>

\* main collects the long file.
CollectLong == CollectOf({}, {LongListing})

\* The runs of Spec, and the run over the long file.
NextLong == CollectLong \/ Next

SpecLong == Init /\ [][NextLong]_vars

\* The files of the runs checked under fairness: a vertex file whose rows
\* may repeat an identifier or be malformed, an edge file, and a file whose
\* name does not resolve.
FairKinds ==
    { [name |-> PlaceCsv, header |-> LabelHeader,
       rows |-> { <<S("1"), S("City")>>, <<S("1")>> }],
      [name |-> KnowsCsv, header |-> EdgeFileHeader,
       rows |-> { <<S("1"), S("2")>> }],
      [name |-> PersonShortCsv, header |-> PlainHeader, rows |-> {}] }

\* main collects one of the listings checked under fairness.
CollectFair == CollectOf({FairKinds}, {<< >>})

NextFair == CollectFair \/ Run

\* The runtime schedules main and every spawned task: a step of main's loop
\* over paths that stays possible is taken, and so is a step of each
\* producer.
FairSpec ==
    /\ Init /\ [][NextFair]_vars
    /\ WF_vars(MainLoop)
    /\ \A i \in 1..MaxFiles : WF_vars(ProducerStep(i))

\* A header of two columns, neither an identifier column nor a LABEL column.
UnmarkedHeader == <<NameCol, NameCol>>

\* An edge header with its START_ID column and no END_ID column.
StartOnlyHeader == <<StartCol, NameCol>>

\* The files of a directory whose headers vary: a place file with and
\* without a LABEL column, a vertex file without an identifier column, an
\* edge file between the two registries with both, one or none of its
\* identifier columns declared, and a file whose name does not resolve.
SchemaKinds ==
    { [name |-> PlaceCsv, header |-> LabelHeader,
       rows |-> { <<S("1"), S("City")>>, <<S("1"), S("Company")>>, <<S("1")>> }],
      [name |-> PlaceCsv, header |-> PlainHeader,
       rows |-> { <<S("1"), S("bob")>> }],
      [name |-> PersonCsv, header |-> UnmarkedHeader,
       rows |-> { <<S("x"), S("bob")>> }],
      [name |-> LocatedCsv, header |-> EdgeFileHeader,
       rows |-> { <<S("1"), S("1")>>, <<S("1"), S("2")>> }],
      [name |-> LocatedCsv, header |-> StartOnlyHeader,
       rows |-> { <<S("1"), S("1")>> }],
      [name |-> LocatedCsv, header |-> UnmarkedHeader,
       rows |-> { <<S("1"), S("1")>> }],
      [name |-> PersonShortCsv, header |-> PlainHeader, rows |-> {}] }

\* The pieces the names of TokenKinds are made of: a vertex name, an edge
\* name, and a piece that is neither.
Tokens == {"person", "knows", "0"}

\* person_knows_person.csv: the third piece is "person.csv".
KnowsBareCsv == <<"person", "_", "knows", "_", "person", ".", "csv">>

\* The files of a directory named by three pieces of Tokens, in every
\* combination, a file of two pieces, and a file whose third piece holds
\* the extension.
TokenKinds ==
    { [name |-> <<a, "_", b, "_", c>>, header |-> PlainHeader, rows |-> {}] :
        a \in Tokens, b \in Tokens, c \in Tokens }
    \cup { [name |-> PersonShortCsv, header |-> PlainHeader, rows |-> {}],
           [name |-> KnowsBareCsv, header |-> PlainHeader, rows |-> {}] }

\* main collects a listing of files whose headers vary, or whose names do.
CollectFiles == CollectOf({SchemaKinds, TokenKinds}, HeaderListings)

NextOfFiles == CollectFiles \/ Run

\* The runs over files whose headers vary.
SpecFiles == Init /\ [][NextOfFiles]_vars

\* main collects one of the two single-file directories.
CollectScenario == CollectOf({}, {TwoPieceListing, ThreePieceListing})

NextScenario == CollectScenario \/ NextFair

\* The runs of FairSpec and the runs over the two single-file directories,
\* under the same scheduling.
FairScenario ==
    /\ Init /\ [][NextScenario]_vars
    /\ WF_vars(MainLoop)
    /\ \A i \in 1..MaxFiles : WF_vars(ProducerStep(i))
====
